---- MODULE Spec2Model ----
(***************************************************************************)
(* A model of cc-antidebug (src/src/index.ts): the bounded-range text      *)
(* scanner scanAndReplace, the patch/restore lifecycle of                  *)
(* patchClaudeBinary / restoreClaudeBinary, and resolveClaudePath.         *)
(*                                                                         *)
(* File contents are sequences of symbols.  A symbol stands for one        *)
(* character (Scan specification) or for one literal fragment of the       *)
(* bundle text that the rules of patchClaudeBinary tell apart (lifecycle   *)
(* specification, see Syms below).  Indices are 0-based and ranges are     *)
(* half-open, as in the source.                                            *)
(***************************************************************************)
EXTENDS Integers, Sequences, FiniteSets, TLC

VARIABLES
    target,      \* bytes of the file at claudePath
    backup,      \* the file at claudePath + ".backup": NoFile or its bytes
    orig,        \* history: target's bytes in the initial state
    origBackup,  \* history: the backup file in the initial state
    everPatched, \* history: patchClaudeBinary has been invoked at least once
    prevOp,      \* history: the invocation before the last one
    last,        \* history: what the last invocation did (see NoOp)
    scanIn,      \* Scan specification: the arguments of scanAndReplace
    scanOut,     \* Scan specification: its result
    fs,          \* Resolve specification: the file system
    start,       \* Resolve specification: the path resolveClaudePath was given
    cur,         \* the path of the innermost resolveClaudePath call
    depth,       \* number of nested resolveClaudePath calls
    rstate,      \* "idle" | "running" | "done"
    result,      \* the path returned to the caller
    failedAt,    \* the path of the recursion level whose try block threw
    failure,     \* what threw there: "none" | "read" | "io" | "stack"
    raised,      \* an exception escaped resolveClaudePath
    inv,         \* Concurrent specification: the two invocations in progress
    separated    \* history: an invocation wrote after the other's write came
                 \* between that write and the observation it rests on

vars == <<target, backup, orig, origBackup, everPatched, prevOp, last,
          scanIn, scanOut, fs, start, cur, depth, rstate, result, failedAt, failure,
          raised, inv, separated>>

lifeVars == <<target, backup, orig, origBackup, everPatched, prevOp, last>>
scanVars == <<scanIn, scanOut>>
resVars == <<fs, start, cur, depth, rstate, result, failedAt, failure, raised>>
concVars == <<inv, separated>>

----------------------------------------------------------------------------
(* Bounds *)

\* longest initial content of the target file (lifecycle specification)
MaxLen == 3
\* longest content of a backup file that exists before the first invocation
MaxBackupLen == 0
\* longest content handed to scanAndReplace (Scan specification)
MaxScanLen == 5
\* nested resolveClaudePath calls the call stack holds before RangeError
MaxDepth == 6
\* longest initial content of the target file (Concurrent specification)
MaxConcLen == 2

SeqsUpTo(S, n) == UNION {[1..k -> S] : k \in 0..n}

----------------------------------------------------------------------------
(* JavaScript string primitives, 0-based *)

\* s.slice(i, j): the half-open range [i, j), clamped to the string
Slice(s, i, j) ==
    LET lo == IF i < 0 THEN 0 ELSE i
        hi == IF j > Len(s) THEN Len(s) ELSE j
    IN  IF hi <= lo THEN <<>> ELSE SubSeq(s, lo + 1, hi)

\* s.slice(i): from i to the end
SliceFrom(s, i) == Slice(s, i, Len(s))

\* s[i]
At(s, i) == s[i + 1]

\* s.indexOf(p): the first position where p occurs, -1 when it does not
IndexOf(s, p) ==
    LET hits == {i \in 0..(Len(s) - Len(p)) : Slice(s, i, i + Len(p)) = p}
    IN  IF hits = {} THEN -1 ELSE CHOOSE i \in hits : \A j \in hits : i <= j

\* s.includes(p)
Includes(s, p) == IndexOf(s, p) # -1

----------------------------------------------------------------------------
(* scanAndReplace *)

\* the backward loop: for (let i = searchIndex - 1; i >= 0; i--)
RECURSIVE BackwardScan(_, _, _, _)
BackwardScan(content, searchIndex, backwardPattern, i) ==
    IF i < 0
    THEN searchIndex
    ELSE LET slice == Slice(content, i, searchIndex)
         IN  IF Includes(slice, backwardPattern)
             THEN i + IndexOf(slice, backwardPattern)
             ELSE BackwardScan(content, searchIndex, backwardPattern, i - 1)

\* where the forward loop starts: a variant of the source that starts at the
\* anchor (as the earlier revision of the function did)
ForwardFromAnchor(startIndex, searchIndex) == searchIndex

\* where the forward loop starts: for (let i = startIndex; ...)
ForwardFrom(startIndex, searchIndex) == startIndex

\* the braces branch of the forward loop without the foundFirstBrace flag
BraceStepNoFlag(ch, braceCount, foundFirstBrace) ==
    LET bc == IF ch = "{" THEN braceCount + 1 ELSE braceCount
    IN  IF ch = "}"
        THEN [braceCount |-> bc - 1, foundFirstBrace |-> TRUE, stop |-> bc - 1 = 0]
        ELSE [braceCount |-> bc, foundFirstBrace |-> TRUE, stop |-> FALSE]

\* one iteration of the braces branch of the forward loop
BraceStep(ch, braceCount, foundFirstBrace) ==
    LET bc == IF ch = "{" THEN braceCount + 1 ELSE braceCount
        ff == foundFirstBrace \/ ch = "{"
    IN  IF ch = "}" /\ ff
        THEN [braceCount |-> bc - 1, foundFirstBrace |-> ff, stop |-> bc - 1 = 0]
        ELSE [braceCount |-> bc, foundFirstBrace |-> ff, stop |-> FALSE]

\* the forward loop: for (let i = startIndex; i < content.length; i++);
\* dflt is endIndex's initial value, searchIndex + searchPattern.length
RECURSIVE ForwardScan(_, _, _, _, _, _, _)
ForwardScan(content, forwardPattern, matchBraces, i, braceCount, foundFirstBrace, dflt) ==
    IF i >= Len(content)
    THEN dflt
    ELSE IF matchBraces
         THEN LET b == BraceStep(At(content, i), braceCount, foundFirstBrace)
              IN  IF b.stop
                  THEN i + 1
                  ELSE ForwardScan(content, forwardPattern, matchBraces, i + 1,
                                   b.braceCount, b.foundFirstBrace, dflt)
         ELSE IF /\ Len(forwardPattern) > 0
                 /\ At(content, i) = At(forwardPattern, 0)
                 /\ Slice(content, i, i + Len(forwardPattern)) = forwardPattern
              THEN i + Len(forwardPattern)
              ELSE ForwardScan(content, forwardPattern, matchBraces, i + 1,
                               braceCount, foundFirstBrace, dflt)

\* the range scanAndReplace computes; searchIndex = -1 when the anchor is absent
ScanRange(content, searchPattern, backwardPattern, forwardPattern, matchBraces) ==
    LET searchIndex == IndexOf(content, searchPattern)
        startIndex == BackwardScan(content, searchIndex, backwardPattern, searchIndex - 1)
        endIndex == ForwardScan(content, forwardPattern, matchBraces,
                                ForwardFrom(startIndex, searchIndex), 0, FALSE,
                                searchIndex + Len(searchPattern))
    IN  IF searchIndex = -1
        THEN [searchIndex |-> -1, startIndex |-> -1, endIndex |-> -1]
        ELSE [searchIndex |-> searchIndex, startIndex |-> startIndex, endIndex |-> endIndex]

\* scanAndReplace: found = FALSE stands for the null result
ScanAndReplace(content, searchPattern, backwardPattern, forwardPattern, replacement, matchBraces) ==
    LET r == ScanRange(content, searchPattern, backwardPattern, forwardPattern, matchBraces)
    IN  IF r.searchIndex = -1
        THEN [found |-> FALSE, content |-> <<>>]
        ELSE [found |-> TRUE,
              content |-> Slice(content, 0, r.startIndex) \o replacement
                          \o SliceFrom(content, r.endIndex)]

----------------------------------------------------------------------------
(* The bundle text as patchClaudeBinary sees it *)

\* The literal fragments the rules tell apart.  A guard is a guard head
\* followed by ";":
\*   "g"   if(X())process.exit(1)       no whitespace, exit code 1
\*   "w"   if (X()) process.exit(1)     whitespace after if and/or before process
\*   "c"   if(X())process.exit(2)       no whitespace, digits other than 1
\*   "wc"  if (X()) process.exit(2)     whitespace, digits other than 1
\*   "f"   if(false)process.exit(1)     head of the replacement literal
\*   ";"   a semicolon
\*   "r"   return
\*   "A"   no need to monitor cost
\*   "d"   the text of dirPattern after its leading return
\*   "e"   the text of dirReplacement after its leading return
\*   "x"   any other text
Syms == {"g", "w", "c", "wc", "f", ";", "r", "A", "d", "e", "x"}

\* the guarded-exit idiom: if \s* (<identifier>()) \s* process.exit(<digits>)
GuardHeads == {"g", "w", "c", "wc"}

\* the heads the three regular expressions of `patterns` accept, in order
patterns == << {"g"}, {"g", "w"}, {"g", "c"} >>

\* "if(false)process.exit(1);" is the head "f" and the ";" that ends a match
guardReplacementHead == "f"

subscriptionAnchor == <<"A">>
dirPattern == <<"r", "d">>
dirReplacement == <<"r", "e">>

\* content.replace(pattern, "if(false)process.exit(1);") with a /g pattern:
\* every head the pattern accepts that is followed by ";" is rewritten
GuardReplace(content, heads) ==
    [i \in 1..Len(content) |->
        IF content[i] \in heads /\ i < Len(content) /\ content[i + 1] = ";"
        THEN guardReplacementHead
        ELSE content[i]]

\* the loop over `patterns`: each pattern is applied to the content the
\* previous ones left
RECURSIVE ApplyPatterns(_, _, _)
ApplyPatterns(patchedContent, patched, k) ==
    IF k > Len(patterns)
    THEN [content |-> patchedContent, patched |-> patched]
    ELSE LET newContent == GuardReplace(patchedContent, patterns[k])
         IN  IF newContent # patchedContent
             THEN ApplyPatterns(newContent, TRUE, k + 1)
             ELSE ApplyPatterns(patchedContent, patched, k + 1)

\* content.replace(p, r) with a pattern without /g: the first occurrence only
ReplaceFirst(content, p, r) ==
    LET i == IndexOf(content, p)
    IN  IF i = -1
        THEN content
        ELSE Slice(content, 0, i) \o r \o SliceFrom(content, i + Len(p))

\* the directory rule: dirPattern.test, then replace
DirRule(content) ==
    IF Includes(content, dirPattern)
    THEN [hit |-> TRUE, content |-> ReplaceFirst(content, dirPattern, dirReplacement)]
    ELSE [hit |-> FALSE, content |-> content]

\* the rules of patchClaudeBinary applied to the content read from the file:
\* the content to write and the `patched` flag
PatchRules(content) ==
    LET g == ApplyPatterns(content, FALSE, 1)
        s == ScanAndReplace(g.content, subscriptionAnchor, <<"r">>, <<";">>, <<";">>, FALSE)
        \* if (subscriptionPatched): neither null nor the empty string
        sHit == s.found /\ s.content # <<>>
        c2 == IF sHit THEN s.content ELSE g.content
        d == DirRule(c2)
    IN  [guards |-> g.content,
         guardsHit |-> g.patched,
         anchorHit |-> sHit,
         dirHit |-> d.hit,
         content |-> d.content,
         patched |-> g.patched \/ sHit \/ d.hit]

----------------------------------------------------------------------------
(* Files *)

NoFile == [exists |-> FALSE, bytes |-> <<>>]
File(bytes) == [exists |-> TRUE, bytes |-> bytes]

\* a backup step that copies on every invocation
BackupAlways(t, b) == File(t)

\* a backup step placed after the `patched` test: no backup when no rule matched
BackupIfPatched(t, b) ==
    IF b.exists THEN b ELSE IF PatchRules(t).patched THEN File(t) ELSE b

\* if (!existsSync(backupPath)) copyFileSync(claudePath, backupPath)
EnsureBackup(t, b) == IF b.exists THEN b ELSE File(t)

\* a final step that writes whatever the flag says
WriteAlways(t, p) == [wrote |-> TRUE, target |-> p.content]

\* if (!patched) return; writeFileSync(claudePath, patchedContent)
WriteIfPatched(t, p) ==
    IF p.patched
    THEN [wrote |-> TRUE, target |-> p.content]
    ELSE [wrote |-> FALSE, target |-> t]

\* a restore that copies in the wrong direction
RestoreReversed(t, b) ==
    IF b.exists
    THEN [target |-> t, backup |-> File(t), wrote |-> TRUE, error |-> FALSE]
    ELSE [target |-> t, backup |-> b, wrote |-> FALSE, error |-> FALSE]

\* a restore without the existsSync test: copyFileSync throws ENOENT when
\* the backup is missing
RestoreUnguarded(t, b) ==
    IF b.exists
    THEN [target |-> b.bytes, backup |-> b, wrote |-> TRUE, error |-> FALSE]
    ELSE [target |-> t, backup |-> b, wrote |-> FALSE, error |-> TRUE]

\* if (!existsSync(backupPath)) return; copyFileSync(backupPath, claudePath)
RestoreFiles(t, b) ==
    IF b.exists
    THEN [target |-> b.bytes, backup |-> b, wrote |-> TRUE, error |-> FALSE]
    ELSE [target |-> t, backup |-> b, wrote |-> FALSE, error |-> FALSE]

----------------------------------------------------------------------------
(* The patch / restore lifecycle, one invocation at a time *)

\* last: the invocation (op), the files it found (pre, preBackup), whether it
\* wrote the target (wrote) or threw (error), and what its rules computed
NoOp == [op |-> "none", pre |-> <<>>, preBackup |-> NoFile, wrote |-> FALSE,
         error |-> FALSE, rules |-> PatchRules(<<>>)]

\* the bytes of a backup file left behind by an earlier run
StaleSyms == {"x", "A"}

InitLife ==
    /\ target \in SeqsUpTo(Syms, MaxLen)
    /\ backup \in {NoFile} \cup {File(b) : b \in SeqsUpTo(StaleSyms, MaxBackupLen)}
    /\ orig = target
    /\ origBackup = backup
    /\ everPatched = FALSE
    /\ prevOp = "none"
    /\ last = NoOp

IdleLife ==
    /\ target = <<>>
    /\ backup = NoFile
    /\ orig = <<>>
    /\ origBackup = NoFile
    /\ everPatched = FALSE
    /\ prevOp = "none"
    /\ last = NoOp

\* patchClaudeBinary(claudePath)
Patch ==
    LET b == EnsureBackup(target, backup)
        p == PatchRules(target)
        w == WriteIfPatched(target, p)
    IN  /\ backup' = b
        /\ target' = w.target
        /\ everPatched' = TRUE
        /\ prevOp' = last.op
        /\ last' = [op |-> "patch", pre |-> target, preBackup |-> backup,
                    wrote |-> w.wrote, error |-> FALSE, rules |-> p]
        /\ UNCHANGED <<orig, origBackup, scanVars, resVars, concVars>>

\* restoreClaudeBinary(claudePath)
Restore ==
    LET r == RestoreFiles(target, backup)
    IN  /\ target' = r.target
        /\ backup' = r.backup
        /\ prevOp' = last.op
        /\ last' = [op |-> "restore", pre |-> target, preBackup |-> backup,
                    wrote |-> r.wrote, error |-> r.error, rules |-> PatchRules(<<>>)]
        /\ UNCHANGED <<orig, origBackup, everPatched, scanVars, resVars, concVars>>

----------------------------------------------------------------------------
(* Claims about the patch / restore lifecycle (specification Spec) *)

\* some regular expression of `patterns` matches somewhere in c
RegexMatches(c) ==
    \E k \in 1..Len(patterns), i \in 1..(Len(c) - 1) : c[i] \in patterns[k] /\ c[i + 1] = ";"

\* the guarded-exit idiom occurs at position i of c
IdiomAt(c, i) == i < Len(c) /\ c[i] \in GuardHeads /\ c[i + 1] = ";"

\* C1: two patchClaudeBinary invocations in a row leave the bytes one
\* invocation leaves; the second matches no rule and performs no write.
C1_PatchIdempotent ==
    (last.op = "patch" /\ prevOp = "patch") =>
        /\ ~last.rules.guardsHit /\ ~last.rules.anchorHit /\ ~last.rules.dirHit
        /\ ~last.wrote
        /\ target = last.pre

\* C2: a restore leaves the target with the backup's bytes, and, when the
\* run started without a backup and patched at least once, with the initial
\* bytes.
C2_RoundTrip ==
    (last.op = "restore" /\ last.preBackup.exists) =>
        /\ backup.exists /\ target = backup.bytes
        /\ (~origBackup.exists /\ everPatched) => target = orig

\* C2 witness: a restore that undid a patch which had changed the target
C2_Witness ==
    /\ last.op = "restore" /\ prevOp = "patch"
    /\ ~origBackup.exists
    /\ last.pre # orig
    /\ target = orig

\* C3: started without a backup, the backup file, once it exists, holds the
\* bytes the target had before the first patch, and no invocation changes or
\* removes it.
C3_BackupInvariant ==
    [][~origBackup.exists =>
          /\ backup.exists => backup' = backup
          /\ backup'.exists => backup'.bytes = orig]_vars

\* C3 witness: a second patch after a restore, with the backup still pristine
\* and the target patched
C3_Witness ==
    /\ ~origBackup.exists
    /\ last.op = "patch" /\ prevOp = "restore" /\ last.preBackup.exists
    /\ backup.exists /\ backup.bytes = orig
    /\ target # orig

\* C4: restoreClaudeBinary without a backup file returns normally, leaves the
\* target's bytes alone and creates no backup.
C4_RestoreWithoutBackup ==
    (last.op = "restore" /\ ~last.preBackup.exists) =>
        /\ ~last.error
        /\ ~last.wrote
        /\ target = last.pre
        /\ ~backup.exists

\* C4 witness: a restore of a non-empty target that found no backup
C4_Witness ==
    /\ last.op = "restore" /\ ~last.preBackup.exists
    /\ target # <<>>

\* the frame of a patch: it writes exactly when `patched` is set, a write
\* stores the content the rules produced, no write leaves the bytes alone
PatchFrame ==
    /\ ~last.error
    /\ last.wrote <=> last.rules.patched
    /\ last.wrote => target = last.rules.content
    /\ ~last.wrote => target = last.pre

\* C5 as claimed: a patch writes iff a rule matched; with no guard match and
\* no anchor, `patched` stays false, nothing is written and the bytes stay.
C5_AsClaimed ==
    last.op = "patch" =>
        /\ PatchFrame
        /\ (~RegexMatches(last.pre) /\ ~Includes(last.pre, subscriptionAnchor)) =>
               (~last.rules.patched /\ ~last.wrote /\ target = last.pre)

\* C5 amended: a patch writes iff a rule matched; with no guard match, no
\* anchor and no match of the directory pattern, `patched` stays false,
\* nothing is written and the bytes stay; otherwise the target is
\* overwritten with the content the rules produced.
C5_WriteIffRuleMatched ==
    last.op = "patch" =>
        /\ PatchFrame
        /\ last.wrote <=> (\/ RegexMatches(last.pre)
                           \/ Includes(last.pre, subscriptionAnchor)
                           \/ Includes(last.pre, dirPattern))

\* C5 witness: a patch that wrote although no guard matched and the anchor
\* was absent
C5_Witness ==
    /\ last.op = "patch" /\ last.wrote
    /\ ~RegexMatches(last.pre) /\ ~Includes(last.pre, subscriptionAnchor)
    /\ target # last.pre

\* C10: after the regular-expression rules every occurrence of the idiom
\* if \s* (<identifier>()) \s* process.exit(<digits>); has become
\* if(false)process.exit(1);, none remains, and the rest is unchanged.
C10_GuardsNeutralised ==
    last.op = "patch" =>
        /\ Len(last.rules.guards) = Len(last.pre)
        /\ \A i \in 1..Len(last.pre) :
               /\ ~IdiomAt(last.rules.guards, i)
               /\ last.rules.guards[i] =
                      IF IdiomAt(last.pre, i) THEN guardReplacementHead ELSE last.pre[i]

----------------------------------------------------------------------------
(* scanAndReplace applied to arbitrary arguments *)

\* the characters of the contents handed to scanAndReplace
ScanSyms == {"a", "r", ";", "{", "}"}

Anchors == {<<"a">>, <<"{", "a">>, <<"a", ";">>}
BackwardPatterns == {<<"r">>, <<"r", "r">>}
ForwardPatterns == {<<";">>, <<";", ";">>}
scanReplacement == <<"R">>

\* scanOut: the result (found, content) and the range the call computed
NoScan == [done |-> FALSE, found |-> FALSE, content |-> <<>>,
           searchIndex |-> -1, startIndex |-> -1, endIndex |-> -1]

InitScan ==
    /\ scanIn \in [content : SeqsUpTo(ScanSyms, MaxScanLen),
                   searchPattern : Anchors,
                   backwardPattern : BackwardPatterns,
                   forwardPattern : ForwardPatterns,
                   matchBraces : BOOLEAN]
    /\ scanOut = NoScan

IdleScan ==
    /\ scanIn = [content |-> <<>>, searchPattern |-> <<"a">>, backwardPattern |-> <<"r">>,
                 forwardPattern |-> <<";">>, matchBraces |-> FALSE]
    /\ scanOut = NoScan

\* the range computed for the arguments in scanIn
InRange ==
    ScanRange(scanIn.content, scanIn.searchPattern, scanIn.backwardPattern,
              scanIn.forwardPattern, scanIn.matchBraces)

\* a call of scanAndReplace
Scan ==
    /\ ~scanOut.done
    /\ LET r == ScanAndReplace(scanIn.content, scanIn.searchPattern, scanIn.backwardPattern,
                               scanIn.forwardPattern, scanReplacement, scanIn.matchBraces)
           g == InRange
       IN  scanOut' = [done |-> TRUE, found |-> r.found, content |-> r.content,
                       searchIndex |-> g.searchIndex, startIndex |-> g.startIndex,
                       endIndex |-> g.endIndex]
    /\ UNCHANGED <<scanIn, lifeVars, resVars, concVars>>

----------------------------------------------------------------------------
(* Claims about scanAndReplace (specification SpecScan) *)

\* the positions where p occurs in s
Occurrences(s, p) == {i \in 0..(Len(s) - Len(p)) : Slice(s, i, i + Len(p)) = p}

Min(S) == CHOOSE i \in S : \A j \in S : i <= j
Max(S) == CHOOSE i \in S : \A j \in S : i >= j

\* occurrences of the backward delimiter that end at or before the anchor
Before(s, p, searchIndex) == {i \in Occurrences(s, p) : i + Len(p) <= searchIndex}

\* occurrences of the forward delimiter that start at or after the anchor's end
After(s, p, anchorEnd) == {i \in Occurrences(s, p) : i >= anchorEnd}

\* C6: without braces, for a content with exactly one anchor, a backward
\* delimiter before it and a forward delimiter after it, the result is the
\* content with exactly the span from the nearest backward delimiter before
\* the anchor through the first forward delimiter after it replaced.
C6_NonBraceSpan ==
    LET c == scanIn.content
        si == Min(Occurrences(c, scanIn.searchPattern))
        ae == si + Len(scanIn.searchPattern)
        bs == Before(c, scanIn.backwardPattern, si)
        fs0 == After(c, scanIn.forwardPattern, ae)
    IN  (/\ scanOut.done /\ ~scanIn.matchBraces
         /\ Cardinality(Occurrences(c, scanIn.searchPattern)) = 1
         /\ bs # {} /\ fs0 # {}) =>
            /\ scanOut.found
            /\ scanOut.content = Slice(c, 0, Max(bs)) \o scanReplacement
                                 \o SliceFrom(c, Min(fs0) + Len(scanIn.forwardPattern))

\* braces opened minus braces closed in s[from .. to]
Depth(s, from, to) ==
    Cardinality({k \in from..to : At(s, k) = "{"})
    - Cardinality({k \in from..to : At(s, k) = "}"})

\* the end boundary of brace mode, stated on the content: just past the first
\* "}" at which the braces from the first "{" at or after startIndex balance;
\* dflt when there is no such "{" or no such "}"
BalancedEnd(s, startIndex, dflt) ==
    LET opens == {i \in startIndex..(Len(s) - 1) : At(s, i) = "{"}
        first == Min(opens)
        closes == {j \in first..(Len(s) - 1) : Depth(s, first, j) = 0}
    IN  IF opens = {} THEN dflt
        ELSE IF closes = {} THEN dflt
        ELSE Min(closes) + 1

\* foo({a:{b:1},c:2})bar
exampleContent ==
    <<"f", "o", "o", "(", "{", "a", ":", "{", "b", ":", "1", "}", ",",
      "c", ":", "2", "}", ")", "b", "a", "r">>

exampleRange == ScanRange(exampleContent, <<"{", "a", ":">>, <<"r">>, <<";">>, TRUE)

\* C7: in brace mode the end boundary is just past the "}" that first brings
\* the brace depth, counted from the first "{" the forward loop meets, back
\* to zero, whatever the nesting and whatever the forward delimiter; for
\* foo({a:{b:1},c:2})bar and anchor {a: it is just before )bar.
C7_BraceModeEnd ==
    /\ (scanOut.done /\ scanIn.matchBraces /\ scanOut.found) =>
           /\ scanOut.endIndex =
                  BalancedEnd(scanIn.content, scanOut.startIndex,
                              scanOut.searchIndex + Len(scanIn.searchPattern))
           /\ \A fp \in ForwardPatterns :
                  ScanRange(scanIn.content, scanIn.searchPattern, scanIn.backwardPattern,
                            fp, TRUE).endIndex = scanOut.endIndex
    /\ scanOut.done => (exampleRange.startIndex = 4 /\ exampleRange.endIndex = 17)

\* C7 witness: a brace-mode call on {a{}} whose range ends at the "}" that
\* closes the outer brace, past the nested pair
C7_Witness ==
    /\ scanOut.done /\ scanIn.matchBraces /\ scanOut.found
    /\ scanIn.content = <<"{", "a", "{", "}", "}">>
    /\ scanIn.searchPattern = <<"{", "a">>
    /\ scanOut.startIndex = 0
    /\ scanOut.endIndex = 5

\* C11: for a content that holds the anchor, whatever the delimiters and the
\* mode, 0 <= startIndex <= endIndex <= len(content) and the range holds the
\* anchor's first occurrence; startIndex is the anchor's position when no
\* backward delimiter lies before the anchor, and endIndex is just past the
\* anchor when the forward loop finds no forward delimiter / balanced brace.
C11_RangeInvariant ==
    LET c == scanIn.content
        si == scanOut.searchIndex
        ae == si + Len(scanIn.searchPattern)
    IN  (scanOut.done /\ scanOut.found) =>
            /\ si = Min(Occurrences(c, scanIn.searchPattern))
            /\ 0 <= scanOut.startIndex
            /\ scanOut.startIndex <= scanOut.endIndex
            /\ scanOut.endIndex <= Len(c)
            /\ scanOut.startIndex <= si
            /\ ae <= scanOut.endIndex
            /\ Before(c, scanIn.backwardPattern, si) = {} => scanOut.startIndex = si
            /\ (/\ ~scanIn.matchBraces
                /\ After(c, scanIn.forwardPattern, scanOut.startIndex) = {}) =>
                   scanOut.endIndex = ae
            /\ (/\ scanIn.matchBraces
                /\ BalancedEnd(c, scanOut.startIndex, -1) = -1) =>
                   scanOut.endIndex = ae

----------------------------------------------------------------------------
(* resolveClaudePath *)

\* A path is <<directory, name>>; NoPath stands for "no path".
Dirs == {"a", "b"}
Names == {"c", "t"}
Paths == Dirs \X Names
NoPath == <<>>

\* what an exec "<target>" or a symlink names: an absolute path, or a name
\* relative to some directory
Targets ==
    [abs : {TRUE}, dir : Dirs, name : Names] \cup [abs : {FALSE}, dir : {"."}, name : Names]
NoTarget == [abs |-> FALSE, dir |-> ".", name |-> "."]

\* what a path holds: nothing, a regular file that is no bash script, a bash
\* script with an exec "<to>" line, or a symbolic link to <to>
Nodes ==
    {[kind |-> "none", to |-> NoTarget], [kind |-> "file", to |-> NoTarget]}
    \cup [kind : {"script", "link"}, to : Targets]

\* redirectPath.startsWith("/") ? redirectPath : join(path, "..", redirectPath)
ResolveAgainst(path, to) == IF to.abs THEN <<to.dir, to.name>> ELSE <<path[1], to.name>>

\* the file the operating system opens for a path: symbolic links are
\* followed; NoPath when a link dangles or the links loop (ENOENT, ELOOP)
RECURSIVE Follow(_, _, _)
Follow(f, path, fuel) ==
    IF fuel = 0 \/ f[path].kind = "none"
    THEN NoPath
    ELSE IF f[path].kind = "link"
         THEN Follow(f, ResolveAgainst(path, f[path].to), fuel - 1)
         ELSE path

Opened(f, path) == Follow(f, path, Cardinality(Paths))

\* existsSync(path): follows links, false instead of an error
ExistsSync(f, path) == Opened(f, path) # NoPath

\* the body of the try block at one recursion level: it throws, returns its
\* path, or calls resolveClaudePath on another path
TryBlock(f, path) ==
    LET real == Opened(f, path)
        redirect == ResolveAgainst(path, f[real].to)
        linked == ResolveAgainst(path, f[path].to)
    IN  IF real = NoPath
        THEN [kind |-> "throw", path |-> path]
        ELSE IF f[real].kind = "script" /\ ExistsSync(f, redirect)
             THEN [kind |-> "recurse", path |-> redirect]
             ELSE IF f[path].kind = "link"
                  THEN [kind |-> "recurse", path |-> linked]
                  ELSE [kind |-> "return", path |-> path]

\* a catch block that lets the error go
CatchRethrow(path, cause) ==
    [rstate |-> "done", result |-> NoPath, failedAt |-> path, failure |-> cause,
     raised |-> TRUE]

\* catch { return path; }
CatchBlock(path, cause) ==
    [rstate |-> "done", result |-> path, failedAt |-> path, failure |-> cause,
     raised |-> FALSE]

InitResolve ==
    /\ fs \in [Paths -> Nodes]
    /\ start \in Paths
    /\ cur = start
    /\ depth = 1
    /\ rstate = "running"
    /\ result = NoPath
    /\ failedAt = NoPath
    /\ failure = "none"
    /\ raised = FALSE

IdleResolve ==
    /\ fs = <<>>
    /\ start = NoPath
    /\ cur = NoPath
    /\ depth = 0
    /\ rstate = "idle"
    /\ result = NoPath
    /\ failedAt = NoPath
    /\ failure = "none"
    /\ raised = FALSE

\* the innermost call ends with the outcome o; every enclosing call returns
\* what its inner call returned
Return(o) ==
    /\ rstate' = o.rstate
    /\ result' = o.result
    /\ failedAt' = o.failedAt
    /\ failure' = o.failure
    /\ raised' = o.raised
    /\ UNCHANGED <<fs, start, cur, depth>>

\* one recursion level of resolveClaudePath(cur) with the file system as it is
ResolveLevel ==
    /\ rstate = "running"
    /\ LET o == TryBlock(fs, cur)
       IN  IF o.kind = "throw"
           THEN Return(CatchBlock(cur, "read"))
           ELSE IF o.kind = "return"
           THEN Return([rstate |-> "done", result |-> cur, failedAt |-> NoPath,
                        failure |-> "none", raised |-> FALSE])
           ELSE IF depth >= MaxDepth
           THEN Return(CatchBlock(cur, "stack"))
           ELSE /\ cur' = o.path
                /\ depth' = depth + 1
                /\ UNCHANGED <<fs, start, rstate, result, failedAt, failure, raised>>
    /\ UNCHANGED <<lifeVars, scanVars, concVars>>

\* readFileSync, lstatSync or readlinkSync fails at this level for a reason
\* the file system's shape does not show (EACCES, EIO, a file removed meanwhile)
ResolveIOFail ==
    /\ rstate = "running"
    /\ Return(CatchBlock(cur, "io"))
    /\ UNCHANGED <<lifeVars, scanVars, concVars>>

----------------------------------------------------------------------------
(* Claims about resolveClaudePath (specification SpecResolve) *)

\* the concrete file an indirection chain ends at: a symlink leads to its
\* target, a wrapper script to its exec target (both relative to the
\* directory they are in); NoPath when the chain is cyclic or broken
RECURSIVE ChainEnd(_, _, _)
ChainEnd(f, path, fuel) ==
    IF fuel = 0 \/ f[path].kind = "none"
    THEN NoPath
    ELSE IF f[path].kind = "file"
         THEN path
         ELSE ChainEnd(f, ResolveAgainst(path, f[path].to), fuel - 1)

Concrete(f, path) == ChainEnd(f, path, Cardinality(Paths))

\* C8: on a non-cyclic chain of wrapper scripts and symlinks that ends at a
\* concrete file F, resolveClaudePath returns F from every path of the chain.
C8_SameConcretePath ==
    (rstate = "done" /\ failure # "io" /\ Concrete(fs, start) # NoPath) =>
        result = Concrete(fs, start)

\* C9: resolveClaudePath never lets an error escape; the level at which a
\* read, stat or readlink failed returns the path it was given.
C9_ResolveTotal ==
    /\ ~raised
    /\ rstate = "done" =>
           /\ result # NoPath
           /\ failure # "none" => result = failedAt

\* C9 witness: a failure two levels down, answered with that level's path
C9_Witness ==
    /\ rstate = "done" /\ failure = "io" /\ depth = 3
    /\ result = failedAt /\ result # start /\ ~raised

----------------------------------------------------------------------------
(* Two invocations on one target, one file step at a time.  The functions  *)
(* are synchronous, so the invocations are those of two processes; nothing *)
(* in patchClaudeBinary or restoreClaudeBinary locks the files.            *)

Procs == {1, 2}
Ops == {"patch", "restore"}

\* an invocation: the function called, the file step it is about to take,
\* what its existsSync saw, the content it read, and whether the other
\* invocation has written since its last observation
NoInv == [op |-> "none", pc |-> "done", seen |-> FALSE, content |-> <<>>,
          stale |-> FALSE]

InitConc ==
    /\ target \in SeqsUpTo(Syms, MaxConcLen)
    /\ backup \in {NoFile} \cup {File(b) : b \in SeqsUpTo(StaleSyms, MaxBackupLen)}
    /\ orig = target
    /\ origBackup = backup
    /\ everPatched = FALSE
    /\ prevOp = "none"
    /\ last = NoOp
    /\ inv \in [Procs -> {[NoInv EXCEPT !.op = o, !.pc = "check"] : o \in Ops}]
    /\ separated = FALSE

IdleConc ==
    /\ inv = [p \in Procs |-> NoInv]
    /\ separated = FALSE

\* an existence test that never sees the backup
BackupCheckAbsent(b) == FALSE

\* existsSync(backupPath)
BackupCheck(b) == b.exists

\* invocation p moves on as record r; a step that writes a file makes the
\* other invocation's last observation stale
Step(p, r, writes) ==
    inv' = [q \in Procs |->
               IF q = p THEN r
               ELSE IF writes THEN [inv[q] EXCEPT !.stale = TRUE] ELSE inv[q]]

\* patchClaudeBinary: if (!existsSync(backupPath))
PatchCheck(p) ==
    /\ inv[p].op = "patch" /\ inv[p].pc = "check"
    /\ LET seen == BackupCheck(backup)
       IN  Step(p, [inv[p] EXCEPT !.seen = seen, !.stale = FALSE,
                                  !.pc = IF seen THEN "read" ELSE "copy"], FALSE)
    /\ UNCHANGED <<lifeVars, separated, scanVars, resVars>>

\* patchClaudeBinary: copyFileSync(claudePath, backupPath)
PatchCopy(p) ==
    /\ inv[p].op = "patch" /\ inv[p].pc = "copy"
    /\ backup' = File(target)
    /\ separated' = (separated \/ inv[p].stale)
    /\ Step(p, [inv[p] EXCEPT !.pc = "read"], TRUE)
    /\ UNCHANGED <<target, orig, origBackup, everPatched, prevOp, last,
                   scanVars, resVars>>

\* patchClaudeBinary: readFileSync(claudePath), then the rules on what was read
PatchRead(p) ==
    /\ inv[p].op = "patch" /\ inv[p].pc = "read"
    /\ Step(p, [inv[p] EXCEPT !.content = target, !.stale = FALSE,
                              !.pc = IF PatchRules(target).patched
                                     THEN "write" ELSE "done"], FALSE)
    /\ UNCHANGED <<lifeVars, separated, scanVars, resVars>>

\* patchClaudeBinary: writeFileSync(claudePath, patchedContent)
PatchWrite(p) ==
    /\ inv[p].op = "patch" /\ inv[p].pc = "write"
    /\ target' = PatchRules(inv[p].content).content
    /\ separated' = (separated \/ inv[p].stale)
    /\ Step(p, [inv[p] EXCEPT !.pc = "done"], TRUE)
    /\ UNCHANGED <<backup, orig, origBackup, everPatched, prevOp, last,
                   scanVars, resVars>>

\* restoreClaudeBinary: if (!existsSync(backupPath)) return
RestoreCheck(p) ==
    /\ inv[p].op = "restore" /\ inv[p].pc = "check"
    /\ LET seen == BackupCheck(backup)
       IN  Step(p, [inv[p] EXCEPT !.seen = seen, !.stale = FALSE,
                                  !.pc = IF seen THEN "rcopy" ELSE "done"], FALSE)
    /\ UNCHANGED <<lifeVars, separated, scanVars, resVars>>

\* restoreClaudeBinary: copyFileSync(backupPath, claudePath)
RestoreCopy(p) ==
    /\ inv[p].op = "restore" /\ inv[p].pc = "rcopy"
    /\ backup.exists
    /\ target' = backup.bytes
    /\ separated' = (separated \/ inv[p].stale)
    /\ Step(p, [inv[p] EXCEPT !.pc = "done"], TRUE)
    /\ UNCHANGED <<backup, orig, origBackup, everPatched, prevOp, last,
                   scanVars, resVars>>

----------------------------------------------------------------------------
(* Claims about concurrent invocations (specification SpecConc) *)

\* the files after one whole invocation, as the lifecycle specification has it
SeqRun(op, st) ==
    IF op = "patch"
    THEN [target |-> WriteIfPatched(st.target, PatchRules(st.target)).target,
          backup |-> EnsureBackup(st.target, st.backup)]
    ELSE [target |-> RestoreFiles(st.target, st.backup).target,
          backup |-> RestoreFiles(st.target, st.backup).backup]

\* the files after the two invocations, one after the other, in either order
SequentialOutcomes ==
    LET s0 == [target |-> orig, backup |-> origBackup]
    IN  {SeqRun(inv[2].op, SeqRun(inv[1].op, s0)),
         SeqRun(inv[1].op, SeqRun(inv[2].op, s0))}

AllDone == \A p \in Procs : inv[p].op # "none" /\ inv[p].pc = "done"

Outcome == [target |-> target, backup |-> backup]

\* C13: nothing keeps the file steps of two invocations apart, and the files
\* they leave differ from those of both sequential orders only when some
\* invocation wrote or copied after the other's write had come between that
\* step and the read or existence check it rests on.
C13_NonSequentialOnlyWhenSeparated ==
    /\ AllDone /\ Outcome \notin SequentialOutcomes => separated
    /\ \A p \in Procs : inv[p].pc = "rcopy" => backup.exists

\* C13 witness: two patches without a backup; the second to copy does so
\* after the first has written, so the backup holds already-patched bytes,
\* which neither sequential order produces
C13_Witness ==
    /\ AllDone /\ separated
    /\ \A p \in Procs : inv[p].op = "patch"
    /\ ~origBackup.exists
    /\ backup.exists /\ backup.bytes # orig
    /\ backup.bytes = PatchRules(orig).content
    /\ Outcome \notin SequentialOutcomes

----------------------------------------------------------------------------
(* Specifications *)

Init == InitLife /\ IdleScan /\ IdleResolve /\ IdleConc

Next == Patch \/ Restore

Spec == Init /\ [][Next]_vars

InitScanSpec == IdleLife /\ InitScan /\ IdleResolve /\ IdleConc

NextScan == Scan

SpecScan == InitScanSpec /\ [][NextScan]_vars

InitResolveSpec == IdleLife /\ IdleScan /\ InitResolve /\ IdleConc

NextResolve == ResolveLevel \/ ResolveIOFail

SpecResolve == InitResolveSpec /\ [][NextResolve]_vars

InitConcSpec == InitConc /\ IdleScan /\ IdleResolve

NextConc ==
    \E p \in Procs :
        \/ PatchCheck(p)
        \/ PatchCopy(p)
        \/ PatchRead(p)
        \/ PatchWrite(p)
        \/ RestoreCheck(p)
        \/ RestoreCopy(p)

SpecConc == InitConcSpec /\ [][NextConc]_vars

====
